---- MODULE Spec2Model ----
(***************************************************************************)
(* Model of the scan orchestrator of backend/opportunities.py              *)
(* (EnhancedOpportunityDetector) and of its callers in                     *)
(* backend/scheduler.py, backend/app.py and backend/worker.py.             *)
(*                                                                         *)
(* The trading_opportunities table is the sequence `store` (a row's id is  *)
(* its index).  Every caller thread owns a SQLAlchemy session              *)
(* (SessionLocal, autoflush=False): what _save_opportunities adds or       *)
(* changes stays in the session (`pending`) until db.commit().             *)
(* A row's description is a function of the candidate and its timestamp    *)
(* is the wall clock; neither is read by the code and both are left out.   *)
(***************************************************************************)
EXTENDS Integers, Sequences, FiniteSets, TLC

\* ------------------------------------------------------------------ bounds
\* rows the trading_opportunities table can hold before an insert fails
MaxRecords == 3

\* calls of the orchestrator and operations on the tracked symbols a
\* behaviour may begin
MaxCalls == 2

\* days in a row an IV history drawn stays on one level
MaxRun == 5

\* rows of a symbol the iv_analysis table can hold
MaxAnalyses == 11

\* ------------------------------------------------------- program constants
MIN_SCORE == 50
SCORE_CAP == 100

\* -------------------------------------------------------------- the world
\* threads that call the orchestrator: the APScheduler job thread of the
\* worker (quick_update, eod_update and weekend_analysis all end in
\* scan_opportunities) and the FastAPI background-task thread (the manual
\* trigger)
Threads == {"worker", "api"}

\* symbols with an active watch entry, in the order the query returns them
Symbols == <<"A", "B">>

\* contracts of a symbol (OptionContract.id)
ContractsOf(sym) == IF sym = "A" THEN <<1>> ELSE <<2, 3>>

\* what the query for the active, non-expired contracts of a symbol can
\* return: its contracts, or none once all have expired or been deactivated
LiveContracts(sym) == {<< >>, ContractsOf(sym)}

None == [k |-> "none", type |-> "", score |-> 0]
Raise == [k |-> "raise", type |-> "", score |-> 0]
Opp(t, s) == [k |-> "opp", type |-> t, score |-> s]

\* What the bodies of the five detectors do on one quote, in the order of
\* the `detectors` list: premium_sell, premium_buy, gamma_scalp, mispricing,
\* high_delta.  An entry is None (a gate failed), Raise (the body threw) or
\* Opp(type, base_score) with base_score the sum before the final clamp.
QuoteRaisingSell ==
    << Raise, None, None, Opp("overpriced", 87), None >>
QuoteLowSell ==
    << Opp("premium_sell", 45), None, Raise, Opp("overpriced", 100),
       Opp("high_delta", 50) >>

NoQuote == << >>

\* latest OptionPrice row of a contract: NoQuote when the contract has none
Quotes == {NoQuote, QuoteRaisingSell, QuoteLowSell}

\* outcome of the StockPrice query: a price, no row, or a database error
PriceFetches == {"price", "norow", "error"}

Min(a, b) == IF a < b THEN a ELSE b

\* ------------------------------------------------------------- detection
\* get_current_stock_price: the latest close price, None when there is no
\* row, and None when the query throws (the except clause returns None)
get_current_stock_price(fetch) ==
    IF fetch = "error" THEN "norow" ELSE fetch

\* A detector as seen by its caller: the body's candidate with its score
\* clamped to 100, None when a gate failed, None when the body threw
\* (every detector ends with `except Exception: ... return None`).
DetectorResult(body) ==
    IF body.k = "opp" THEN Opp(body.type, Min(body.score, SCORE_CAP))
    ELSE None

Candidate(cid, opp) ==
    [contract_id |-> cid, opportunity_type |-> opp.type, score |-> opp.score]

\* `if opp and opp['score'] >= self.MIN_SCORE`
RetainsBelowMin(opp) == opp.k = "opp"

Retains(opp) == opp.k = "opp" /\ opp.score >= MIN_SCORE

RECURSIVE RunDetectorsAbort(_, _, _, _)
\* a detector without a candidate ends the loop over the detectors
RunDetectorsAbort(cid, bodies, i, opportunities) ==
    IF i > Len(bodies) THEN opportunities
    ELSE LET opp == DetectorResult(bodies[i]) IN
         IF opp.k # "opp" THEN opportunities
         ELSE RunDetectorsAbort(cid, bodies, i + 1,
                 IF Retains(opp)
                 THEN Append(opportunities, Candidate(cid, opp))
                 ELSE opportunities)

RECURSIVE RunDetectors(_, _, _, _)
\* `for detector in detectors:` of scan_symbol_opportunities, from the
\* i-th detector on; a detector that throws is logged and skipped
RunDetectors(cid, bodies, i, opportunities) ==
    IF i > Len(bodies) THEN opportunities
    ELSE LET opp == DetectorResult(bodies[i]) IN
         RunDetectors(cid, bodies, i + 1,
             IF Retains(opp)
             THEN Append(opportunities, Candidate(cid, opp))
             ELSE opportunities)

RECURSIVE ScanContracts(_, _, _, _)
\* `for contract in contracts:` of scan_symbol_opportunities, from the j-th
\* contract on; quotes[j] is the latest OptionPrice of contracts[j]
ScanContracts(contracts, quotes, j, opportunities) ==
    IF j > Len(contracts) THEN opportunities
    ELSE IF quotes[j] = NoQuote
         THEN ScanContracts(contracts, quotes, j + 1, opportunities)
         ELSE ScanContracts(contracts, quotes, j + 1,
                 RunDetectors(contracts[j], quotes[j], 1, opportunities))

\* the candidates scan_symbol_opportunities collects for a symbol, given
\* the outcome of the price query, its live contracts and their quotes
SymbolCandidates(contracts, fetch, quotes) ==
    IF get_current_stock_price(fetch) = "norow" THEN << >>
    ELSE ScanContracts(contracts, quotes, 1, << >>)

\* the quotes a scan can read for a list of contracts
QuotesOf(contracts) == [1..Len(contracts) -> Quotes]

\* ------------------------------------------------------------------ state
VARIABLES
    store,              \* rows of trading_opportunities, in id order
    pc,                 \* per thread: where its call of the orchestrator is
    mode,               \* per thread: "universe" (scan_all_opportunities),
                        \*   "symbol" (scan_symbol_opportunities) or "none"
    save_to_db,         \* per thread: the save_to_db argument of the call
    symbols,            \* per thread: the symbols the call works on
    idx,                \* per thread: index of the next symbol to scan
    all_opportunities,  \* per thread: symbol -> candidates found (<< >>: no key)
    pending,            \* per thread: uncommitted changes of its session
    seen,               \* per thread: the market data the call has read
                        \*   (no quotes with a price: no live contracts)
    pre_store,          \* per thread: the table as it was when the call began
    deactivated,        \* per thread: the call committed the deactivate-all
    write_failed,       \* per thread: a store write of the call failed
    raised,             \* per thread: an exception reached the caller
    shutdown_event,     \* worker.shutdown_event / app.shutdown_event
    scheduler_running,  \* the BackgroundScheduler accepts and starts jobs
    calls,              \* calls of the orchestrator begun so far
    symbol_table,       \* symbols table: per symbol "absent", or the row's
                        \*   is_active as "active" / "inactive"
    user_watchlists,    \* user_watchlists table: per symbol the is_active
                        \*   flags of its entries, in id order
    iv_analysis,        \* iv_analysis table: the rows of one symbol, oldest
                        \*   first
    is_running,         \* DataUpdateScheduler.is_running
    jobs,               \* ids of the jobs the BackgroundScheduler holds
    main_pc,            \* where main() of the worker is
    calc                \* the last call of a helper or detector on its own:
                        \*   its name, its arguments and what it returned

\* the variables of the call a thread makes
call == << pc, mode, save_to_db, symbols, idx, all_opportunities, pending,
           seen, pre_store, deactivated, write_failed, raised >>

\* the variables of the process around the calls
process == << shutdown_event, scheduler_running, is_running, jobs, main_pc >>

\* the tables beside trading_opportunities
tables == << symbol_table, user_watchlists, iv_analysis >>

vars == << store, call, process, calls, tables, calc >>

SymbolSet == {Symbols[i] : i \in 1..Len(Symbols)}

Unseen == [fetch |-> "unseen", quotes |-> << >>]

NoOpportunities == [s \in SymbolSet |-> << >>]
NothingSeen == [s \in SymbolSet |-> Unseen]

NoCalc == [fn |-> "none"]

\* ids of the jobs start() registers
JobIds == {"quick_update", "eod_update", "weekend_analysis"}

\* no call of the orchestrator has begun, the store is empty
InitCalls ==
    /\ store = << >>
    /\ pc = [t \in Threads |-> "idle"]
    /\ mode = [t \in Threads |-> "none"]
    /\ save_to_db = [t \in Threads |-> FALSE]
    /\ symbols = [t \in Threads |-> << >>]
    /\ idx = [t \in Threads |-> 1]
    /\ all_opportunities = [t \in Threads |-> NoOpportunities]
    /\ pending = [t \in Threads |-> << >>]
    /\ seen = [t \in Threads |-> NothingSeen]
    /\ pre_store = [t \in Threads |-> << >>]
    /\ deactivated = [t \in Threads |-> FALSE]
    /\ write_failed = [t \in Threads |-> FALSE]
    /\ raised = [t \in Threads |-> FALSE]
    /\ shutdown_event = FALSE
    /\ calls = 0

\* the worker is in its main loop, its scheduler started
InitScan ==
    /\ InitCalls
    /\ scheduler_running = TRUE
    /\ is_running = TRUE
    /\ jobs = JobIds
    /\ main_pc = "loop"

\* every symbol is in the symbols table, active, with one active entry on
\* the watchlist
Init ==
    /\ InitScan
    /\ symbol_table = [s \in SymbolSet |-> "active"]
    /\ user_watchlists = [s \in SymbolSet |-> << TRUE >>]
    /\ iv_analysis = << >>
    /\ calc = NoCalc

\* ------------------------------------------------------------ persistence
Identity(r) == << r.contract_id, r.opportunity_type >>

Row(cand) ==
    [contract_id |-> cand.contract_id,
     opportunity_type |-> cand.opportunity_type,
     score |-> cand.score, is_active |-> TRUE]

\* the old opportunities are deleted
DeactivateAllPurge(table) == << >>

\* `self.db.query(TradingOpportunity).update({'is_active': False})`
DeactivateAll(table) ==
    [i \in DOMAIN table |-> [table[i] EXCEPT !.is_active = FALSE]]

\* the query for an existing row matches nothing
ExistingNever(table, opp) == {}

\* ids of the rows the `existing` query of _save_opportunities matches:
\* same contract, same type, active
Existing(table, opp) ==
    {i \in DOMAIN table : /\ Identity(table[i]) = Identity(opp)
                          /\ table[i].is_active}

\* `.first()` of that query: the row with the lowest id, 0 for None
First(ids) == IF ids = {} THEN 0
              ELSE CHOOSE i \in ids : \A j \in ids : i <= j

\* every candidate is written over the first row of the table
SessionChangesOverFirst(table, opportunities) ==
    [n \in DOMAIN opportunities |->
        [row |-> IF table = << >> THEN 0 ELSE 1, opp |-> opportunities[n]]]

\* the loop of _save_opportunities: for each candidate, an update of the
\* existing row or a new row, all held in the session until the commit.
\* The session does not autoflush, so the queries see the committed table.
SessionChanges(table, opportunities) ==
    [n \in DOMAIN opportunities |->
        [row |-> First(Existing(table, opportunities[n])),
         opp |-> opportunities[n]]]

RECURSIVE Flush(_, _, _)
\* db.commit(): the session's updates and inserts reach the table
Flush(table, changes, n) ==
    IF n > Len(changes) THEN table
    ELSE LET ch == changes[n] IN
         Flush(IF ch.row = 0 THEN Append(table, Row(ch.opp))
               ELSE [table EXCEPT ![ch.row].score = ch.opp.score],
               changes, n + 1)

Inserts(changes) == {n \in DOMAIN changes : changes[n].row = 0}

RECURSIVE Flatten(_, _)
\* `[opp for opps in all_opportunities.values() for opp in opps]`
Flatten(found, i) ==
    IF i > Len(Symbols) THEN << >>
    ELSE found[Symbols[i]] \o Flatten(found, i + 1)

\* the candidates a call holds, in list order
Candidates(t) == Flatten(all_opportunities[t], 1)

\* -------------------------------------------------------- tracked symbols
\* the active entries among the watchlist entries of a symbol
ActiveEntries(entries) == {n \in DOMAIN entries : entries[n]}

RECURSIVE JoinRows(_, _, _)
\* the rows of `Symbol JOIN UserWatchlist ON Symbol.id = symbol_id WHERE
\* UserWatchlist.is_active`, from the i-th symbol on: one row for every
\* active entry of a symbol that is in the symbols table
JoinRows(rows, watchlists, i) ==
    IF i > Len(Symbols) THEN << >>
    ELSE LET s == Symbols[i] IN
         (IF rows[s] = "absent" THEN << >>
          ELSE [n \in 1..Cardinality(ActiveEntries(watchlists[s])) |-> s])
         \o JoinRows(rows, watchlists, i + 1)

RECURSIVE Deduplicate(_)
\* Query.all() on a single mapped entity returns every object once
Deduplicate(seq) ==
    IF seq = << >> THEN << >>
    ELSE LET rest == Deduplicate(SubSeq(seq, 1, Len(seq) - 1))
             last == seq[Len(seq)] IN
         IF \E n \in DOMAIN rest : rest[n] = last THEN rest
         ELSE Append(rest, last)

\* the join without the filter on UserWatchlist.is_active
WatchlistSymbolsAnyEntry(rows, watchlists) ==
    SelectSeq(Symbols,
              LAMBDA s : rows[s] # "absent" /\ watchlists[s] # << >>)

\* `symbols = self.db.query(Symbol).join(UserWatchlist, ...).filter(
\* UserWatchlist.is_active == True).all()` of scan_all_opportunities
ActiveWatchlistSymbols(rows, watchlists) ==
    Deduplicate(JoinRows(rows, watchlists, 1))

\* ---------------------------------------------------------------- actions
\* `except Exception as e: logger.error(...)` that closes the try block of
\* scan_all_opportunities, of scan_symbol_opportunities and of
\* _save_opportunities: does the exception thrown inside reach the caller?
ExceptionPropagates(thrown) == FALSE

\* A thread may begin a call: the worker's thread runs the jobs of a running
\* scheduler, the API's thread serves requests until shutdown is signalled.
MayBegin(t) ==
    /\ pc[t] = "idle"
    /\ calls < MaxCalls
    /\ t = "worker" => scheduler_running
    /\ t = "api" => ~shutdown_event

\* where the loop over the symbols goes after the i-th symbol
AfterSymbolStopOnEmpty(syms, i, persist, found) ==
    IF i < Len(syms) /\ found # << >> THEN "scan"
    ELSE IF persist THEN "save" ELSE "done"

AfterSymbol(syms, i, persist, found) ==
    IF i < Len(syms) THEN "scan"
    ELSE IF persist THEN "save" ELSE "done"

\* scan_opportunities of the scheduler (a job, or the manual trigger of
\* POST /api/opportunities/scan) calls scan_all_opportunities, which
\* deactivates the old opportunities in a transaction of its own and reads
\* the symbols of the watchlist.
ScanAllStart(t, persist) ==
    /\ MayBegin(t)
    /\ calls' = calls + 1
    /\ mode' = [mode EXCEPT ![t] = "universe"]
    /\ save_to_db' = [save_to_db EXCEPT ![t] = persist]
    /\ pre_store' = [pre_store EXCEPT ![t] = store]
    /\ \E ok \in BOOLEAN :
          IF persist /\ ~ok
          THEN \* the update or its commit throws: the except clause of
               \* scan_all_opportunities logs and the empty map is returned
               /\ write_failed' = [write_failed EXCEPT ![t] = TRUE]
               /\ raised' = [raised EXCEPT ![t] = ExceptionPropagates(TRUE)]
               /\ pc' = [pc EXCEPT ![t] = "done"]
               /\ UNCHANGED << store, deactivated, symbols >>
          ELSE /\ ok
               /\ store' = IF persist THEN DeactivateAll(store) ELSE store
               /\ deactivated' = [deactivated EXCEPT ![t] = persist]
               /\ symbols' = [symbols EXCEPT ![t] =
                     ActiveWatchlistSymbols(symbol_table, user_watchlists)]
               /\ pc' = [pc EXCEPT ![t] = "scan"]
               /\ UNCHANGED << write_failed, raised >>
    /\ UNCHANGED << idx, all_opportunities, pending, seen, process, tables >>

\* scan_opportunities called as a job of its own (weekend_analysis) or by
\* the manual trigger
ScanAllBegin(t, persist) ==
    /\ ScanAllStart(t, persist)
    /\ UNCHANGED calc

\* one round of `for symbol in symbols:` of scan_all_opportunities:
\* scan_symbol_opportunities(symbol, save_to_db=False)
ScanAllSymbol(t) ==
    /\ pc[t] = "scan"
    /\ idx[t] <= Len(symbols[t])
    /\ LET sym == symbols[t][idx[t]] IN
       \E fetch \in PriceFetches :
       \E contracts \in (IF fetch = "price" THEN LiveContracts(sym)
                         ELSE {<< >>}) :
       \E quotes \in QuotesOf(contracts) :
          LET opportunities == SymbolCandidates(contracts, fetch, quotes) IN
          /\ all_opportunities' =
                [all_opportunities EXCEPT ![t][sym] = opportunities]
          /\ seen' = [seen EXCEPT ![t][sym] =
                         [fetch |-> fetch, quotes |-> quotes]]
          /\ pc' = [pc EXCEPT ![t] =
                       AfterSymbol(symbols[t], idx[t], save_to_db[t],
                                   opportunities)]
    /\ idx' = [idx EXCEPT ![t] = idx[t] + 1]
    /\ UNCHANGED << store, mode, save_to_db, symbols, pending, pre_store,
                    deactivated, write_failed, raised, process, calls, tables, calc >>

\* scan_symbol_opportunities(symbol, save_to_db) called on its own: the
\* candidates are saved only when there are any
ScanSymbol(t, sym, persist) ==
    /\ MayBegin(t)
    /\ calls' = calls + 1
    /\ mode' = [mode EXCEPT ![t] = "symbol"]
    /\ save_to_db' = [save_to_db EXCEPT ![t] = persist]
    /\ pre_store' = [pre_store EXCEPT ![t] = store]
    /\ symbols' = [symbols EXCEPT ![t] = << sym >>]
    /\ idx' = [idx EXCEPT ![t] = 2]
    /\ \E fetch \in PriceFetches :
       \E contracts \in (IF fetch = "price" THEN LiveContracts(sym)
                         ELSE {<< >>}) :
       \E quotes \in QuotesOf(contracts) :
          LET opportunities == SymbolCandidates(contracts, fetch, quotes) IN
          /\ all_opportunities' =
                [all_opportunities EXCEPT ![t][sym] = opportunities]
          /\ seen' = [seen EXCEPT ![t][sym] =
                         [fetch |-> fetch, quotes |-> quotes]]
          /\ pc' = [pc EXCEPT ![t] =
                       IF persist /\ opportunities # << >>
                       THEN "save" ELSE "done"]
    /\ UNCHANGED << store, pending, deactivated, write_failed, raised,
                    process, tables, calc >>

\* the loop of _save_opportunities: the queries for existing rows and the
\* changes they lead to, held in the session
SaveOpportunities(t) ==
    /\ pc[t] = "save"
    /\ pending' = [pending EXCEPT ![t] = SessionChanges(store, Candidates(t))]
    /\ pc' = [pc EXCEPT ![t] = "commit"]
    /\ UNCHANGED << store, mode, save_to_db, symbols, idx, all_opportunities,
                    seen, pre_store, deactivated, write_failed, raised,
                    process, calls, tables, calc >>

\* the end of _save_opportunities: db.commit(), or the except clause that
\* logs and rolls the session back when the commit throws; the table holds
\* at most MaxRecords rows, so an insert beyond that throws
Commit(t) ==
    /\ pc[t] = "commit"
    /\ \E ok \in BOOLEAN :
          IF ok /\ Len(store) + Cardinality(Inserts(pending[t])) <= MaxRecords
          THEN /\ store' = Flush(store, pending[t], 1)
               /\ UNCHANGED << write_failed, raised >>
          ELSE /\ write_failed' = [write_failed EXCEPT ![t] = TRUE]
               /\ raised' = [raised EXCEPT ![t] = ExceptionPropagates(TRUE)]
               /\ UNCHANGED store
    /\ pending' = [pending EXCEPT ![t] = << >>]
    /\ pc' = [pc EXCEPT ![t] = "done"]
    /\ UNCHANGED << mode, save_to_db, symbols, idx, all_opportunities, seen,
                    pre_store, deactivated, process, calls, tables, calc >>

\* the caller has taken the result (scan_opportunities logs it and closes
\* the session); the thread is free for the next call
Return(t) ==
    /\ pc[t] = "done"
    /\ pc' = [pc EXCEPT ![t] = "idle"]
    /\ mode' = [mode EXCEPT ![t] = "none"]
    /\ save_to_db' = [save_to_db EXCEPT ![t] = FALSE]
    /\ symbols' = [symbols EXCEPT ![t] = << >>]
    /\ idx' = [idx EXCEPT ![t] = 1]
    /\ all_opportunities' = [all_opportunities EXCEPT ![t] = NoOpportunities]
    /\ seen' = [seen EXCEPT ![t] = NothingSeen]
    /\ pre_store' = [pre_store EXCEPT ![t] = << >>]
    /\ deactivated' = [deactivated EXCEPT ![t] = FALSE]
    /\ write_failed' = [write_failed EXCEPT ![t] = FALSE]
    /\ raised' = [raised EXCEPT ![t] = FALSE]
    /\ UNCHANGED << store, pending, process, calls, tables, calc >>

\* handle_signal (worker.py) / handle_sigterm (app.py): SIGTERM or SIGINT
HandleSignal ==
    /\ ~shutdown_event
    /\ shutdown_event' = TRUE
    /\ UNCHANGED << store, call, scheduler_running, is_running, jobs, main_pc,
                    calls, tables, calc >>

\* the main loop of the worker leaves on the event and calls
\* scheduler.stop(): no job is started any more; jobs that run are not
\* interrupted (BackgroundScheduler.shutdown waits for them)
Stop ==
    /\ shutdown_event
    /\ main_pc = "loop"
    /\ scheduler_running
    /\ scheduler_running' = FALSE
    /\ is_running' = FALSE
    /\ jobs' = {}
    /\ main_pc' = "exited"
    /\ UNCHANGED << store, call, shutdown_event, calls, tables, calc >>

\* add_symbol_to_watchlist (POST /api/symbols): a symbol that exists is
\* made active again, a new one gets a row in the symbols table; False
\* when the database throws
add_symbol_to_watchlist(s) ==
    /\ calls < MaxCalls
    /\ calls' = calls + 1
    /\ \E ok \in BOOLEAN :
          /\ symbol_table' =
                IF ok THEN [symbol_table EXCEPT ![s] = "active"]
                ELSE symbol_table
          /\ calc' = [fn |-> "add_symbol_to_watchlist", symbol |-> s,
                      result |-> ok]
    /\ UNCHANGED << store, call, process, user_watchlists, iv_analysis >>

\* delete_symbol (DELETE /api/symbols/{symbol}): the soft delete of a
\* symbol that exists
delete_symbol(s) ==
    /\ calls < MaxCalls
    /\ calls' = calls + 1
    /\ symbol_table[s] # "absent"
    /\ symbol_table' = [symbol_table EXCEPT ![s] = "inactive"]
    /\ calc' = [fn |-> "delete_symbol", symbol |-> s, result |-> TRUE]
    /\ UNCHANGED << store, call, process, user_watchlists, iv_analysis >>

\* there is no active entry
HasNoActiveEntry(entries) == ActiveEntries(entries) = {}

\* `UserWatchlist.id == None` after the outer join: there is no entry
HasNoEntry(entries) == entries = << >>

\* the active symbols without a watchlist entry
SymbolsWithoutWatchlist(rows, watchlists) ==
    {s \in SymbolSet : rows[s] = "active" /\ HasNoEntry(watchlists[s])}

\* the user_watchlists table after the migration: an active entry for
\* each of these symbols, committed together; on an exception the session
\* is rolled back
Migrated(rows, watchlists, ok) ==
    [s \in SymbolSet |->
        IF ok /\ s \in SymbolsWithoutWatchlist(rows, watchlists)
        THEN << TRUE >> ELSE watchlists[s]]

\* migrate_existing_symbols_to_watchlist, run when the worker starts: an
\* active entry for every active symbol that has no entry at all; nothing
\* when the database throws (rollback)
migrate_existing_symbols_to_watchlist ==
    /\ calls < MaxCalls
    /\ calls' = calls + 1
    /\ \E ok \in BOOLEAN :
          /\ user_watchlists' = Migrated(symbol_table, user_watchlists, ok)
          /\ calc' = [fn |-> "migrate_existing_symbols_to_watchlist",
                      symbol |-> "", result |-> ok,
                      created |->
                         IF ok
                         THEN Cardinality(SymbolsWithoutWatchlist(
                                             symbol_table, user_watchlists))
                         ELSE 0]
    /\ UNCHANGED << store, call, process, symbol_table, iv_analysis >>

\* ------------------------------------------------------ main() of the worker
\* the parameters DataUpdateScheduler.__init__ takes beside self
InitParameters == {}

\* `DataUpdateScheduler(shutdown_event=shutdown_event)`: a keyword that
\* __init__ does not take is a TypeError
Constructs(keywords) == keywords \subseteq InitParameters

\* `create_tables()`: on an exception main logs and exits with status 1
MainCreateTables ==
    /\ main_pc = "begin"
    /\ \E ok \in BOOLEAN : main_pc' = IF ok THEN "migrate" ELSE "exit1"
    /\ UNCHANGED << store, call, shutdown_event, scheduler_running,
                    is_running, jobs, calls, tables, calc >>

\* the migration check, which is not fatal
MainMigrate ==
    /\ main_pc = "migrate"
    /\ \E ok \in BOOLEAN :
          user_watchlists' = Migrated(symbol_table, user_watchlists, ok)
    /\ main_pc' = "construct"
    /\ UNCHANGED << store, call, shutdown_event, scheduler_running,
                    is_running, jobs, calls, symbol_table, iv_analysis,
                    calc >>

\* the scheduler is constructed; the TypeError is caught nowhere, so the
\* process ends with a traceback before the signal handlers are registered
\* and before scheduler.start()
MainConstruct ==
    /\ main_pc = "construct"
    /\ main_pc' = IF Constructs({"shutdown_event"}) THEN "signals"
                  ELSE "crashed"
    /\ UNCHANGED << store, call, shutdown_event, scheduler_running,
                    is_running, jobs, calls, tables, calc >>

\* ------------------------------------------------- DataUpdateScheduler
\* the wall clock in US/Eastern: the day of the week (Monday is 0) and the
\* time of day in seconds
TimeOfDay(h, m, sec) == h * 3600 + m * 60 + sec

market_open == TimeOfDay(9, 30, 0)
market_close == TimeOfDay(16, 0, 0)

\* only Sunday counts as the weekend
IsWeekendSunday(now) == now.weekday >= 6

\* `if now.weekday() >= 5`
IsWeekend(now) == now.weekday >= 5

is_market_hours(now) ==
    IF IsWeekend(now) THEN FALSE
    ELSE market_open <= now.time /\ now.time <= market_close

\* the clock readings drawn: Friday and Saturday; firings of the
\* quick_update trigger before, at and after the opening and the close,
\* and the seconds next to the opening and the close
Clock ==
    [weekday : {4, 5},
     time : {TimeOfDay(9, 15, 0), TimeOfDay(9, 29, 59), TimeOfDay(9, 30, 0),
             TimeOfDay(16, 0, 0), TimeOfDay(16, 0, 1), TimeOfDay(16, 15, 0)}]

\* quick_update, run by its trigger: nothing when the market is closed,
\* else update_stock_data, calculate_greeks (which does nothing) and
\* scan_opportunities
quick_update ==
    /\ pc["worker"] = "idle"
    /\ scheduler_running
    /\ \E now \in Clock :
          IF is_market_hours(now)
          THEN /\ ScanAllStart("worker", TRUE)
               /\ calc' = [fn |-> "quick_update", now |-> now,
                           updated |-> TRUE]
          ELSE /\ calc' = [fn |-> "quick_update", now |-> now,
                           updated |-> FALSE]
               /\ UNCHANGED << store, call, process, calls, tables >>

\* there are no early returns: start() registers and starts again
AlreadyRunningNever(running) == FALSE

\* `if self.is_running: ... return` of start()
AlreadyRunning(running) == running

\* start(): the three jobs are registered (replace_existing=True) and the
\* BackgroundScheduler is started, which throws when it is running
start ==
    /\ LET noop == AlreadyRunning(is_running) IN
       /\ calc' = [fn |-> "start", was_running |-> is_running,
                   registered |-> IF noop THEN {} ELSE JobIds]
       /\ IF noop
          THEN UNCHANGED << is_running, scheduler_running, jobs >>
          ELSE /\ jobs' = jobs \cup JobIds
               /\ IF scheduler_running
                  THEN UNCHANGED << is_running, scheduler_running >>
                  ELSE scheduler_running' = TRUE /\ is_running' = TRUE
    /\ UNCHANGED << store, call, shutdown_event, main_pc, calls, tables >>

\* stop(): nothing when not running, else BackgroundScheduler.shutdown(),
\* which also empties the memory job store
stop ==
    /\ calc' = [fn |-> "stop", was_running |-> is_running]
    /\ IF ~is_running
       THEN UNCHANGED << is_running, scheduler_running, jobs >>
       ELSE /\ scheduler_running' = FALSE
            /\ jobs' = {}
            /\ is_running' = FALSE
    /\ UNCHANGED << store, call, shutdown_event, main_pc, calls, tables >>

\* get_status(): the jobs are listed only while is_running
get_status ==
    /\ \E now \in Clock :
          calc' = [fn |-> "get_status", is_running |-> is_running,
                   is_market_hours |-> is_market_hours(now),
                   jobs |-> IF is_running THEN jobs ELSE {}]
    /\ UNCHANGED << store, call, process, calls, tables >>

Next ==
    \/ \E t \in Threads, persist \in BOOLEAN : ScanAllBegin(t, persist)
    \/ \E t \in Threads : ScanAllSymbol(t)
    \/ \E t \in Threads, persist \in BOOLEAN :
          \E i \in 1..Len(Symbols) : ScanSymbol(t, Symbols[i], persist)
    \/ \E t \in Threads : SaveOpportunities(t)
    \/ \E t \in Threads : Commit(t)
    \/ \E t \in Threads : Return(t)
    \/ HandleSignal
    \/ Stop

Spec == Init /\ [][Next]_vars

\* The same program when its callers are serialized: a call begins only
\* while no other call is in progress.
NoCallInProgress == \A t \in Threads : pc[t] = "idle"

NextSerial ==
    \/ \E t \in Threads, persist \in BOOLEAN :
          NoCallInProgress /\ ScanAllBegin(t, persist)
    \/ \E t \in Threads : ScanAllSymbol(t)
    \/ \E t \in Threads, persist \in BOOLEAN :
          \E i \in 1..Len(Symbols) :
             NoCallInProgress /\ ScanSymbol(t, Symbols[i], persist)
    \/ \E t \in Threads : SaveOpportunities(t)
    \/ \E t \in Threads : Commit(t)
    \/ \E t \in Threads : Return(t)
    \/ HandleSignal
    \/ Stop

SpecSerial == Init /\ [][NextSerial]_vars

\* what a symbol's part of the user_watchlists table can hold when the
\* program starts
WatchEntryLists ==
    {<< >>, << TRUE >>, << FALSE >>, << FALSE, TRUE >>, << TRUE, TRUE >>}

\* the tables as the program can find them: any symbols, any entries for
\* the symbols there are
InitWatch ==
    /\ InitScan
    /\ symbol_table \in [SymbolSet -> {"absent", "active", "inactive"}]
    /\ user_watchlists \in [SymbolSet -> WatchEntryLists]
    /\ \A s \in SymbolSet :
          symbol_table[s] = "absent" => user_watchlists[s] = << >>
    /\ iv_analysis = << >>
    /\ calc = NoCalc

\* The persisting scans of the worker and the operations on the tracked
\* symbols, one at a time.
NextWatch ==
    \/ \E s \in SymbolSet : NoCallInProgress /\ add_symbol_to_watchlist(s)
    \/ \E s \in SymbolSet : NoCallInProgress /\ delete_symbol(s)
    \/ NoCallInProgress /\ migrate_existing_symbols_to_watchlist
    \/ NoCallInProgress /\ ScanAllBegin("worker", TRUE)
    \/ ScanAllSymbol("worker")
    \/ SaveOpportunities("worker")
    \/ Commit("worker")
    \/ Return("worker")

SpecWatch == InitWatch /\ [][NextWatch]_vars

\* the worker process starts: main() is entered, there is no scheduler
InitWorker ==
    /\ InitCalls
    /\ scheduler_running = FALSE
    /\ is_running = FALSE
    /\ jobs = {}
    /\ main_pc = "begin"
    /\ symbol_table \in [SymbolSet -> {"absent", "active", "inactive"}]
    /\ user_watchlists \in [SymbolSet -> WatchEntryLists]
    /\ \A s \in SymbolSet :
          symbol_table[s] = "absent" => user_watchlists[s] = << >>
    /\ iv_analysis = << >>
    /\ calc = NoCalc

\* main() of the worker, statement by statement, as far as it gets
NextWorker ==
    \/ MainCreateTables
    \/ MainMigrate
    \/ MainConstruct

SpecWorker == InitWorker /\ [][NextWorker]_vars

\* a DataUpdateScheduler as scheduler.py makes it: constructed, not started
InitSched ==
    /\ InitCalls
    /\ scheduler_running = FALSE
    /\ is_running = FALSE
    /\ jobs = {}
    /\ main_pc = "none"
    /\ symbol_table = [s \in SymbolSet |-> "active"]
    /\ user_watchlists = [s \in SymbolSet |-> << TRUE >>]
    /\ iv_analysis = << >>
    /\ calc = NoCalc

\* The scheduler is started and stopped, asked for its status, and runs
\* its quick_update job.
NextSched ==
    \/ start
    \/ stop
    \/ get_status
    \/ quick_update
    \/ ScanAllSymbol("worker")
    \/ SaveOpportunities("worker")
    \/ Commit("worker")
    \/ Return("worker")

SpecSched == InitSched /\ [][NextSched]_vars

TypeOK ==
    /\ Len(store) <= MaxRecords
    /\ \A t \in Threads : pc[t] \in {"idle", "scan", "save", "commit", "done"}

\* ------------------------------------------------- helpers and detectors
\* Numbers are integers: prices in cents, spread_percentage in hundredths
\* of a percent, Greeks in thousandths, IV and IV rank in percent, scores in
\* hundredths of a point.  The values drawn are chosen so that every
\* division the code makes is exact.
Pts(n) == n * 100

\* a column that holds NULL; a value v is << v >>
Null == << >>

\* store_options_data: spread_percentage is set only when bid and ask are
\* both positive, as (ask - bid) / mid_price * 100; otherwise it stays NULL
StoreSpread(bid, ask) ==
    IF bid > 0 /\ ask > 0
    THEN << ((ask - bid) * 20000) \div (bid + ask) >>
    ELSE Null

\* the OptionPrice row store_options_data writes (safe_float and safe_int
\* turn a missing value into 0, never into NULL)
OptionPrice(bid, ask, last, vol, oi, iv, greeks) ==
    [bid |-> bid, ask |-> ask, last_price |-> last,
     spread_percentage |-> StoreSpread(bid, ask),
     volume |-> vol, open_interest |-> oi, implied_volatility |-> iv,
     delta |-> greeks.delta, gamma |-> greeks.gamma,
     theta |-> greeks.theta, vega |-> greeks.vega]

NoGreeks == [delta |-> 0, gamma |-> 0, theta |-> 0, vega |-> 0]

\* spread component: `if latest_price.spread_percentage:` is false for NULL
\* and for 0
SpreadPoints(q) ==
    IF q.spread_percentage = Null THEN 0
    ELSE LET sp == q.spread_percentage[1] IN
         IF sp = 0 THEN 0
         ELSE IF sp < 500 THEN Pts(40)
         ELSE IF sp < 1000 THEN Pts(30) - 6 * (sp - 500)
         ELSE 0

\* volume component
VolumePoints(q) ==
    IF q.volume > 0
    THEN IF q.volume >= 100 THEN Pts(30)
         ELSE IF q.volume >= 50 THEN Pts(20)
         ELSE IF q.volume >= 10 THEN Pts(10)
         ELSE 0
    ELSE 0

\* open interest component
OpenInterestPoints(q) ==
    IF q.open_interest # 0
    THEN IF q.open_interest >= 1000 THEN Pts(30)
         ELSE IF q.open_interest >= 500 THEN Pts(20)
         ELSE IF q.open_interest >= 100 THEN Pts(10)
         ELSE 0
    ELSE 0

calculate_liquidity_score(q) ==
    Min(SpreadPoints(q) + VolumePoints(q) + OpenInterestPoints(q), Pts(100))

\* bid and ask of the quotes drawn: no market, a locked market (bid = ask),
\* and spreads of 4%, 5%, 8%, 10% and 15%
BidAsks ==
    {<< 0, 0 >>, << 250, 250 >>, << 245, 255 >>, << 195, 205 >>,
     << 240, 260 >>, << 190, 210 >>, << 185, 215 >>}

Volumes == {0, 9, 10, 49, 50, 99, 100, 500}

OpenInterests == {0, 99, 100, 499, 500, 999, 1000, 5000}

\* calculate_liquidity_score called on a quote
LiquidityScore ==
    /\ calc = NoCalc
    /\ \E ba \in BidAsks, vol \in Volumes, oi \in OpenInterests :
          LET q == OptionPrice(ba[1], ba[2], 0, vol, oi, 25, NoGreeks) IN
          calc' = [fn |-> "calculate_liquidity_score", quote |-> q,
                   result |-> calculate_liquidity_score(q)]
    /\ UNCHANGED << store, call, process, calls, tables >>

Abs(x) == IF x < 0 THEN 0 - x ELSE x
Max(a, b) == IF a > b THEN a ELSE b

\* days_to_expiry = calculate_time_to_expiry(expiry_date) * 365, with days
\* the whole days left: the floor of 0.0001 year of the helper (0.0365 day)
\* is below a day
days_to_expiry(contract) == Max(contract.days, 0)

\* `liquidity_score / 10` capped at 10: the liquidity bonus of the
\* Greeks-based detectors
LiquidityBonus(q) == Min(calculate_liquidity_score(q) \div 10, Pts(10))

\* mid_price: the mid of bid and ask when both are positive, else the last
MidPrice(q) ==
    IF q.bid > 0 /\ q.ask > 0 THEN (q.bid + q.ask) \div 2 ELSE q.last_price

\* ---- premium selling
SellIvRankPoints(iv_rank) ==
    IF iv_rank >= 80 THEN Pts(25)
    ELSE (Pts(15) * (iv_rank - 60)) \div (80 - 60)

\* theta_magnitude / 0.10 * 15 without the cap
SellThetaPointsUncapped(theta) == 15 * Abs(theta)

\* `min(theta_magnitude / 0.10 * 15, 15)`
SellThetaPoints(theta) == Min(15 * Abs(theta), Pts(15))

SellVegaPoints(vega) ==
    IF vega > 200 THEN Pts(10) ELSE IF vega > 100 THEN Pts(5) ELSE 0

\* the window ends one day early
SellExpiryOutsideEarly(days) == days < 7 \/ days >= 90

\* `if days_to_expiry < 7 or days_to_expiry > 90: return None`
SellExpiryOutside(days) == days < 7 \/ days > 90

detect_premium_selling_opportunity(recent_iv, contract, q) ==
    IF recent_iv = Null \/ recent_iv[1] < 60 THEN None
    ELSE IF q.theta = 0 \/ q.vega = 0 \/ q.delta = 0 THEN None
    ELSE IF Abs(q.theta) < 20 THEN None
    ELSE IF Abs(q.delta) < 100 THEN None
    ELSE IF SellExpiryOutside(days_to_expiry(contract)) THEN None
    ELSE Opp("premium_sell",
             Min(Pts(40) + SellIvRankPoints(recent_iv[1])
                 + SellThetaPoints(q.theta) + SellVegaPoints(q.vega)
                 + LiquidityBonus(q), Pts(100)))

\* ---- premium buying
BuyIvRankPoints(iv_rank) ==
    IF iv_rank <= 20 THEN Pts(25)
    ELSE (Pts(15) * (40 - iv_rank)) \div (40 - 20)

\* `min(vega / 0.30 * 15, 15)`
BuyVegaPoints(vega) == Min(5 * vega, Pts(15))

BuyThetaPoints(theta) ==
    IF Abs(theta) < 20 THEN Pts(10)
    ELSE IF Abs(theta) < 50 THEN Pts(5) ELSE 0

\* the gate lets a moderately high IV rank through
BuyIvRankTooHighLate(iv_rank) == iv_rank > 60

\* `recent_iv.iv_rank > self.IV_RANK_MID_LOW`
BuyIvRankTooHigh(iv_rank) == iv_rank > 40

detect_premium_buying_opportunity(recent_iv, contract, q) ==
    IF recent_iv = Null \/ BuyIvRankTooHigh(recent_iv[1]) THEN None
    ELSE IF q.theta = 0 \/ q.vega = 0 \/ q.delta = 0 THEN None
    ELSE IF q.vega < 50 THEN None
    ELSE IF days_to_expiry(contract) < 20 \/ days_to_expiry(contract) > 120
         THEN None
    ELSE Opp("premium_buy",
             Min(Pts(40) + BuyIvRankPoints(recent_iv[1])
                 + BuyVegaPoints(q.vega) + BuyThetaPoints(q.theta)
                 + LiquidityBonus(q), Pts(100)))

\* ---- gamma scalping
\* moneyness as a fraction << numerator, denominator >>: stock / strike for
\* a call, strike / stock for a put
Moneyness(contract, stock_price) ==
    IF contract.option_type = "put"
    THEN << contract.strike_price, stock_price >>
    ELSE << stock_price, contract.strike_price >>

\* `min(gamma_magnitude / 0.05 * 20, 20)`
GammaPoints(gamma) == Min(40 * Abs(gamma), Pts(20))

\* `max(15 * (1 - atm_distance / 0.10), 0)`
MoneynessPoints(m) ==
    Max(Pts(15) - (Pts(15) * 10 * Abs(m[2] - m[1])) \div m[2], 0)

\* `min(gamma_theta_ratio / 2.0 * 10, 10)`
RatioPoints(gamma, theta) ==
    Min((Abs(gamma) * Pts(10)) \div (2 * Abs(theta)), Pts(10))

detect_gamma_scalping_opportunity(contract, q, stock_price) ==
    LET m == Moneyness(contract, stock_price) IN
    IF q.gamma = 0 \/ q.theta = 0 \/ q.delta = 0 THEN None
    ELSE IF Abs(q.gamma) < 10 THEN None
    ELSE IF 100 * m[1] < 90 * m[2] \/ 100 * m[1] > 110 * m[2] THEN None
    ELSE IF days_to_expiry(contract) < 7 \/ days_to_expiry(contract) > 45
         THEN None
    ELSE IF Abs(q.theta) = 0 THEN None
    ELSE IF 2 * Abs(q.gamma) < Abs(q.theta) THEN None
    ELSE IF calculate_liquidity_score(q) < Pts(50) THEN None
    ELSE Opp("gamma_scalp",
             Min(Pts(45) + GammaPoints(q.gamma) + MoneynessPoints(m)
                 + RatioPoints(q.gamma, q.theta) + LiquidityBonus(q),
                 Pts(100)))

\* ---- mispricing
\* the deviation counts only when it exceeds the threshold
MispricingBelowOrAtThreshold(mid_price, theoretical_price) ==
    100 * Abs(mid_price - theoretical_price) <= 15 * theoretical_price

\* `abs(mispricing_pct) < self.MISPRICING_THRESHOLD`
MispricingBelowThreshold(mid_price, theoretical_price) ==
    100 * Abs(mid_price - theoretical_price) < 15 * theoretical_price

\* `min(abs(mispricing_pct) / 0.30 * 30, 30)`
MispricingPoints(mid_price, theoretical_price) ==
    Min((Pts(30) * 100 * Abs(mid_price - theoretical_price))
           \div (30 * theoretical_price), Pts(30))

\* `min(liquidity_score / 5, 20)`
MispricingLiquidityPoints(q) ==
    Min(calculate_liquidity_score(q) \div 5, Pts(20))

\* theoretical_price is what calculate_theoretical_price returns for the
\* contract, the stock price and the quote's implied volatility: the
\* Black-Scholes value, or 0.0 when the computation throws
detect_mispricing_opportunity(contract, q, theoretical_price) ==
    LET mid_price == MidPrice(q) IN
    IF q.implied_volatility = 0 \/ q.implied_volatility <= 0 THEN None
    ELSE IF theoretical_price <= 0 THEN None
    ELSE IF mid_price <= 0 THEN None
    ELSE IF MispricingBelowThreshold(mid_price, theoretical_price) THEN None
    ELSE IF calculate_liquidity_score(q) < Pts(40) THEN None
    ELSE Opp(IF mid_price > theoretical_price
             THEN "overpriced" ELSE "underpriced",
             Min(Pts(50) + MispricingPoints(mid_price, theoretical_price)
                 + MispricingLiquidityPoints(q), Pts(100)))

\* ---- high delta
\* `min((delta_magnitude - 0.65) / 0.35 * 20, 20)`
DeltaPoints(delta) ==
    Min(((Abs(delta) - 650) * Pts(20)) \div 350, Pts(20))

DeltaThetaPoints(delta, theta) ==
    IF Abs(theta) = 0 THEN 0
    ELSE IF Abs(delta) > 15 * Abs(theta) THEN Pts(15)
    ELSE IF Abs(delta) > 10 * Abs(theta) THEN Pts(10)
    ELSE IF Abs(delta) > 5 * Abs(theta) THEN Pts(5)
    ELSE 0

calculate_intrinsic_value(stock_price, strike_price, option_type) ==
    IF option_type = "call" THEN Max(0, stock_price - strike_price)
    ELSE Max(0, strike_price - stock_price)

\* the bonus for the share of the premium that is intrinsic value
ItmPoints(intrinsic, mid_price) ==
    IF mid_price > 0
    THEN IF intrinsic > 0 /\ 10 * intrinsic > 7 * mid_price THEN Pts(10)
         ELSE IF intrinsic > 0 /\ 10 * intrinsic > 5 * mid_price THEN Pts(5)
         ELSE 0
    ELSE 0

detect_high_delta_opportunity(contract, q, stock_price) ==
    IF q.delta = 0 \/ q.theta = 0 THEN None
    ELSE IF Abs(q.delta) < 650 THEN None
    ELSE IF days_to_expiry(contract) < 20 \/ days_to_expiry(contract) > 180
         THEN None
    ELSE IF calculate_liquidity_score(q) < Pts(30) THEN None
    ELSE Opp("high_delta",
             Min(Pts(45) + DeltaPoints(q.delta)
                 + DeltaThetaPoints(q.delta, q.theta) + LiquidityBonus(q)
                 + ItmPoints(calculate_intrinsic_value(stock_price,
                                 contract.strike_price, contract.option_type),
                             MidPrice(q)),
                 Pts(100)))
\* ---- the detectors called on their own
Contract(option_type, strike_price, days) ==
    [option_type |-> option_type, strike_price |-> strike_price,
     days |-> days]

Greeks(delta, gamma, theta, vega) ==
    [delta |-> delta, gamma |-> gamma, theta |-> theta, vega |-> vega]

\* markets << bid, ask, volume, open interest >> by liquidity score:
\* 0, 20, 30 (locked), 40, 42, 50 (no bid or ask), 50, 60 and 100
Markets ==
    << << 0, 0, 0, 0 >>, << 0, 0, 50, 0 >>, << 250, 250, 100, 0 >>,
       << 190, 210, 50, 500 >>, << 240, 260, 50, 100 >>,
       << 0, 0, 100, 500 >>, << 245, 255, 10, 0 >>, << 245, 255, 50, 0 >>,
       << 245, 255, 100, 1000 >> >>

MarketQuote(m, last, iv, greeks) ==
    OptionPrice(m[1], m[2], last, m[3], m[4], iv, greeks)

\* implied volatilities of the quotes drawn: negative, zero, 25%
IVs == {0 - 10, 0, 25}

\* the underlying's latest close
StockPrice == 10000

DetectorCall(fn, recent_iv, contract, q, stock_price, theoretical, res) ==
    [fn |-> fn, recent_iv |-> recent_iv, contract |-> contract, quote |-> q,
     stock_price |-> stock_price, theoretical_price |-> theoretical,
     result |-> res]

PremiumSelling ==
    /\ calc = NoCalc
    /\ \E recent_iv \in {Null, <<59>>, <<60>>, <<70>>, <<80>>, <<100>>},
          theta \in {0, 0 - 10, 0 - 20, 0 - 50, 0 - 200},
          vega \in {0, 0 - 50, 100, 101, 201},
          delta \in {0, 99, 0 - 100, 500},
          days \in {6, 7, 90, 91},
          n \in {1, 5, 9},
          iv \in IVs :
          LET contract == Contract("call", 10000, days)
              q == MarketQuote(Markets[n], 250, iv,
                               Greeks(delta, 20, theta, vega)) IN
          calc' = DetectorCall("detect_premium_selling_opportunity",
                     recent_iv, contract, q, StockPrice, 0,
                     detect_premium_selling_opportunity(recent_iv, contract,
                                                        q))
    /\ UNCHANGED << store, call, process, calls, tables >>

PremiumBuying ==
    /\ calc = NoCalc
    /\ \E recent_iv \in {Null, <<0>>, <<20>>, <<30>>, <<40>>, <<41>>},
          theta \in {0, 0 - 10, 0 - 20, 0 - 50},
          vega \in {0, 0 - 50, 49, 50, 101, 300},
          delta \in {0, 500},
          days \in {19, 20, 120, 121},
          n \in {1, 5, 9},
          iv \in IVs :
          LET contract == Contract("call", 10000, days)
              q == MarketQuote(Markets[n], 250, iv,
                               Greeks(delta, 20, theta, vega)) IN
          calc' = DetectorCall("detect_premium_buying_opportunity",
                     recent_iv, contract, q, StockPrice, 0,
                     detect_premium_buying_opportunity(recent_iv, contract,
                                                       q))
    /\ UNCHANGED << store, call, process, calls, tables >>

GammaScalping ==
    /\ calc = NoCalc
    /\ \E gamma \in {0, 9, 10, 25, 50, 0 - 100},
          theta \in {0, 0 - 10, 0 - 50, 0 - 200},
          delta \in {0, 500},
          c \in {<< "call", 10000, 8900 >>, << "call", 10000, 9000 >>,
                 << "call", 10000, 9500 >>, << "call", 10000, 10000 >>,
                 << "call", 10000, 11000 >>, << "call", 10000, 11100 >>,
                 << "put", 8900, StockPrice >>, << "put", 9000, StockPrice >>,
                 << "put", 10500, StockPrice >>,
                 << "put", 11100, StockPrice >>},
          days \in {6, 7, 45, 46},
          n \in {5, 7, 9},
          iv \in IVs :
          LET contract == Contract(c[1], c[2], days)
              q == MarketQuote(Markets[n], 250, iv,
                               Greeks(delta, gamma, theta, 100)) IN
          calc' = DetectorCall("detect_gamma_scalping_opportunity",
                     Null, contract, q, c[3], 0,
                     detect_gamma_scalping_opportunity(contract, q, c[3]))
    /\ UNCHANGED << store, call, process, calls, tables >>

Mispricing ==
    /\ calc = NoCalc
    /\ \E n \in DOMAIN Markets,
          last \in {0, 170, 230, 250},
          iv \in IVs,
          theoretical_price \in {0, 100, 200, 500} :
          LET contract == Contract("call", 10000, 30)
              q == MarketQuote(Markets[n], last, iv, NoGreeks) IN
          calc' = DetectorCall("detect_mispricing_opportunity",
                     Null, contract, q, StockPrice, theoretical_price,
                     detect_mispricing_opportunity(contract, q,
                                                   theoretical_price))
    /\ UNCHANGED << store, call, process, calls, tables >>

HighDelta ==
    /\ calc = NoCalc
    /\ \E delta \in {0, 649, 650, 0 - 720, 1000},
          theta \in {0, 0 - 10, 0 - 50, 0 - 100, 0 - 200},
          c \in {<< "call", 9800 >>, << "call", 9850 >>,
                 << "call", 10500 >>, << "put", 10200 >>},
          days \in {19, 20, 180, 181},
          n \in {2, 3, 8, 9},
          iv \in IVs :
          LET contract == Contract(c[1], c[2], days)
              q == MarketQuote(Markets[n], 0, iv,
                               Greeks(delta, 20, theta, 100)) IN
          calc' = DetectorCall("detect_high_delta_opportunity",
                     Null, contract, q, StockPrice, 0,
                     detect_high_delta_opportunity(contract, q, StockPrice))
    /\ UNCHANGED << store, call, process, calls, tables >>

\* ---- the detectors run by a scan of a symbol
\* a detector's result with its score in whole points, as the scan counts
\* it (a score of at least MIN_SCORE stays one)
InPoints(opp) ==
    IF opp.k = "opp" THEN Opp(opp.type, opp.score \div 100) ELSE opp

\* the `detectors` list of scan_symbol_opportunities for one contract and
\* its latest quote, each called; every detector that needs the symbol's
\* volatility record reads the same one
Detectors(recent_iv, contract, q, stock_price, theoretical_price) ==
    << InPoints(detect_premium_selling_opportunity(recent_iv, contract, q)),
       InPoints(detect_premium_buying_opportunity(recent_iv, contract, q)),
       InPoints(detect_gamma_scalping_opportunity(contract, q, stock_price)),
       InPoints(detect_mispricing_opportunity(contract, q,
                                              theoretical_price)),
       InPoints(detect_high_delta_opportunity(contract, q, stock_price)) >>

\* what the scan can find for a contract: no quote, or a quote << Greeks,
\* market, theoretical price >>
ContractData ==
    {<< >>} \cup
    ({NoGreeks, Greeks(500, 20, 0 - 20, 300), Greeks(1000, 20, 0 - 20, 300)}
        \X {Markets[1], Markets[9]} \X {0, 100, 250, 500})

\* the symbol scanned: the one with two contracts
ScannedSymbol == Symbols[2]

\* the detection of scan_symbol_opportunities(symbol, save_to_db=False) on
\* a symbol with a stock price
ScanSymbolDetect ==
    /\ calc = NoCalc
    /\ \E recent_iv \in {Null, <<20>>, <<40>>, <<50>>, <<60>>, <<80>>},
          data \in [1..Len(ContractsOf(ScannedSymbol)) -> ContractData] :
          LET contract == Contract("call", 10000, 30)
              quotes ==
                 [j \in DOMAIN data |->
                    IF data[j] = << >> THEN NoQuote
                    ELSE Detectors(recent_iv, contract,
                                   MarketQuote(data[j][2], 250, 25,
                                               data[j][1]),
                                   StockPrice, data[j][3])]
          IN
          calc' = [fn |-> "scan_symbol_opportunities",
                   recent_iv |-> recent_iv, data |-> data,
                   result |-> SymbolCandidates(ContractsOf(ScannedSymbol),
                                               "price", quotes)]
    /\ UNCHANGED << store, call, process, calls, tables >>

\* ---- IV rank and IV percentile
\* A percentage is a fraction << numerator, denominator >> with a positive
\* denominator; 50.0 is << 50, 1 >>.
Fifty == << 50, 1 >>

\* `max(0, min(100, x))`
Clamp(x) ==
    IF x[1] > 100 * x[2] THEN << 100, 1 >>
    ELSE IF x[1] < 0 THEN << 0, 1 >>
    ELSE x

\* `iv_history.tail(period_days)`
TailOf(iv_history, period_days) ==
    IF Len(iv_history) <= period_days THEN iv_history
    ELSE SubSeq(iv_history, Len(iv_history) - period_days + 1,
                Len(iv_history))

SeriesMin(series) ==
    CHOOSE x \in {series[i] : i \in DOMAIN series} :
        \A i \in DOMAIN series : x <= series[i]

SeriesMax(series) ==
    CHOOSE x \in {series[i] : i \in DOMAIN series} :
        \A i \in DOMAIN series : x >= series[i]

\* calculate_iv_rank; a current_iv that is not a number makes the
\* arithmetic throw, and the except clause returns 50.0
calculate_iv_rank(current_iv, iv_history, period_days) ==
    LET recent_iv == TailOf(iv_history, period_days) IN
    IF Len(recent_iv) < 10 THEN Fifty
    ELSE LET iv_min == SeriesMin(recent_iv)
             iv_max == SeriesMax(recent_iv) IN
         IF iv_max = iv_min THEN Fifty
         ELSE IF current_iv = Null THEN Fifty
         ELSE Clamp(<< (current_iv[1] - iv_min) * 100, iv_max - iv_min >>)

\* the values up to the current one are counted
CountAtOrBelow(recent_iv, current_iv) ==
    Cardinality({i \in DOMAIN recent_iv : recent_iv[i] <= current_iv})

\* `(recent_iv < current_iv).sum()`
CountBelow(recent_iv, current_iv) ==
    Cardinality({i \in DOMAIN recent_iv : recent_iv[i] < current_iv})

\* calculate_iv_percentile; the comparison with a current_iv that is not a
\* number throws, and the except clause returns 50.0
calculate_iv_percentile(current_iv, iv_history, period_days) ==
    LET recent_iv == TailOf(iv_history, period_days) IN
    IF Len(recent_iv) < 10 THEN Fifty
    ELSE IF current_iv = Null THEN Fifty
    ELSE Clamp(<< CountBelow(recent_iv, current_iv[1]) * 100,
                  Len(recent_iv) >>)

\* IV levels of the histories drawn, in percent
IvLevels == {10, 20, 30}

\* the histories drawn: up to MaxRun days on one level, three times over,
\* oldest first
Run(level, n) == [i \in 1..n |-> level]

IvHistories ==
    {Run(l[1], n[1]) \o Run(l[2], n[2]) \o Run(l[3], n[3]) :
        l \in IvLevels \X IvLevels \X IvLevels,
        n \in (0..MaxRun) \X (0..MaxRun) \X (0..MaxRun)}

CurrentIvs == {Null, <<5>>, <<10>>, <<15>>, <<20>>, <<30>>, <<35>>}

\* the trailing periods asked for: a short one, and the default of a year
PeriodDays == {12, 365}

IvCall(fn, current_iv, iv_history, period_days, result) ==
    [fn |-> fn, current_iv |-> current_iv, iv_history |-> iv_history,
     period_days |-> period_days, result |-> result]

IvRank ==
    /\ calc = NoCalc
    /\ \E current_iv \in CurrentIvs, iv_history \in IvHistories,
          period_days \in PeriodDays :
          calc' = IvCall("calculate_iv_rank", current_iv, iv_history,
                         period_days,
                         calculate_iv_rank(current_iv, iv_history,
                                           period_days))
    /\ UNCHANGED << store, call, process, calls, tables >>

IvPercentile ==
    /\ calc = NoCalc
    /\ \E current_iv \in CurrentIvs, iv_history \in IvHistories,
          period_days \in PeriodDays :
          calc' = IvCall("calculate_iv_percentile", current_iv, iv_history,
                         period_days,
                         calculate_iv_percentile(current_iv, iv_history,
                                                 period_days))
    /\ UNCHANGED << store, call, process, calls, tables >>

\* ---- historical volatility
\* `np.log(prices / prices.shift(1)).dropna()`: the log returns, each kept
\* as the pair of prices it is the log of the ratio of
LogReturns(prices) ==
    [i \in 1..(Len(prices) - 1) |-> << prices[i + 1], prices[i] >>]

\* `log_returns.std() * np.sqrt(252)`, of which the model keeps the sign: 0
\* when every log return is log(1) = 0, 1 (a positive volatility) when the
\* returns differ
AnnualVolSign(log_returns) ==
    IF \A i \in DOMAIN log_returns : log_returns[i][1] = log_returns[i][2]
    THEN 0
    ELSE IF \E i, j \in DOMAIN log_returns :
               log_returns[i][1] * log_returns[j][2] #
                  log_returns[j][1] * log_returns[i][2]
         THEN 1
         ELSE 0

\* `if len(prices) < 10`
TooFew(prices) == Len(prices) < 10

\* a price_history argument: a series of prices, or something that is no
\* series
Series(prices) == [series |-> TRUE, prices |-> prices]
NotASeries == [series |-> FALSE, prices |-> << >>]

\* calculate_historical_volatility, by the sign of what it returns; a
\* price_history that is no series makes `.tail` throw, and the except
\* clause returns 0.0
calculate_historical_volatility(price_history, period_days) ==
    IF ~price_history.series THEN 0
    ELSE LET prices == TailOf(price_history.prices, period_days + 1) IN
         IF TooFew(prices) THEN 0
         ELSE AnnualVolSign(LogReturns(prices))

\* close prices in cents: a flat series and one that moves every day
FlatPrices(n) == [i \in 1..n |-> 10000]
MovingPrices(n) == [i \in 1..n |-> IF i % 2 = 0 THEN 11000 ELSE 10000]

\* numbers of samples supplied
SampleCounts == {0, 1, 9, 10, 15, 20, 21, 25, 30, 31, 40}

PriceHistories ==
    {NotASeries} \cup {Series(FlatPrices(n)) : n \in SampleCounts}
                 \cup {Series(MovingPrices(n)) : n \in SampleCounts}

\* the periods calculate_and_store_iv_analysis asks for
HvPeriods == {20, 30}

HistoricalVolatility ==
    /\ calc = NoCalc
    /\ \E price_history \in PriceHistories, period_days \in HvPeriods :
          calc' = [fn |-> "calculate_historical_volatility",
                   price_history |-> price_history,
                   period_days |-> period_days,
                   result |-> calculate_historical_volatility(price_history,
                                                              period_days)]
    /\ UNCHANGED << store, call, process, calls, tables >>

\* ---- the volatility analysis of a symbol
\* `.limit(365)` of the query for the stored analyses
ANALYSIS_LIMIT == 365

\* the filter `OptionPrice.implied_volatility > 0` of the query for the
\* recent option prices, and of the list comprehension after it
PositiveIvs(ivs) == SelectSeq(ivs, LAMBDA iv : iv > 0)

RECURSIVE SumOf(_)
SumOf(seq) == IF seq = << >> THEN 0 ELSE Head(seq) + SumOf(Tail(seq))

\* np.mean
Mean(seq) == SumOf(seq) \div Len(seq)

\* `order_by(IVAnalysis.timestamp.desc()).limit(365)` and the series of the
\* current_iv of these records: newest first
HistoricalIvSeries(rows) ==
    LET n == Min(Len(rows), ANALYSIS_LIMIT) IN
    [i \in 1..n |-> rows[Len(rows) + 1 - i].current_iv]

\* the IVAnalysis record a run stores (hv_20d and hv_30d are read by no
\* code and left out)
IvAnalysisRecord(current_iv, rows) ==
    LET series == HistoricalIvSeries(rows) IN
    [current_iv |-> current_iv,
     iv_rank |-> IF Len(series) < 10 THEN Fifty
                 ELSE calculate_iv_rank(<< current_iv >>, series,
                                        ANALYSIS_LIMIT),
     iv_percentile |-> IF Len(series) < 10 THEN Fifty
                       ELSE calculate_iv_percentile(<< current_iv >>, series,
                                                    ANALYSIS_LIMIT)]

\* implied volatilities of the recent option prices of the symbol a run
\* can find, in percent
RecentOptionIvs == {<< >>, << 0 >>, << 10 >>, << 10, 30 >>, << 0, 30 >>}

\* calculate_and_store_iv_analysis: False without a record when there is no
\* option price with an implied volatility, or when the database throws
\* (rollback); otherwise a new record is appended
calculate_and_store_iv_analysis ==
    /\ Len(iv_analysis) < MaxAnalyses
    /\ \E recent_options \in RecentOptionIvs, ok \in BOOLEAN :
          LET current_ivs == PositiveIvs(recent_options) IN
          iv_analysis' =
             IF current_ivs = << >> \/ ~ok THEN iv_analysis
             ELSE Append(iv_analysis,
                         IvAnalysisRecord(Mean(current_ivs), iv_analysis))
    /\ UNCHANGED << store, call, process, calls, symbol_table,
                    user_watchlists, calc >>

NextIv == calculate_and_store_iv_analysis

\* The volatility analysis of one symbol, run again and again.
SpecIv == Init /\ [][NextIv]_vars

\* ---- implied volatility by Newton-Raphson
\* sigma is counted in hundredths (50 is 0.5), prices in millionths, so
\* that the tolerance of 1e-5 is 10; vega is the change of the price per
\* hundredth of sigma ("per 1%").
INITIAL_SIGMA == 50
MAX_ITERATIONS == 100
TOLERANCE == 10

\* What _bs_price_scipy and _calculate_vega_scipy return as functions of
\* sigma, for the S, K, t, r and option type of a call: a pricing is a
\* record of the price below and from a kink on, each a line in sigma.
Pricing(kink, low, high, slope, vega) ==
    [kink |-> kink, low |-> low, high |-> high, slope |-> slope,
     vega |-> vega]

bs_price_scipy(pricing, sigma) ==
    IF sigma < pricing.kink THEN pricing.low + pricing.slope * sigma
    ELSE pricing.high + pricing.slope * sigma

calculate_vega_scipy(pricing, sigma) == pricing.vega

\* the price is a line: 300 at sigma 0, 10 more for every hundredth
LinePricing == Pricing(0, 300, 300, 10, 10)

\* far from the money the price does not move with sigma
FlatPricing == Pricing(0, 1000, 1000, 0, 0)

\* the price jumps at sigma 0.4 and the tangents on either side lead
\* across the jump
JumpPricing == Pricing(40, 500, 700, 10, 10)

\* the price is 900 below the kink and 1000 from it on; vega stays 100
StepPricing(kink) == Pricing(kink, 900, 1000, 0, 100)

\* the calls drawn: << pricing, target_price >>
NewtonInputs ==
    {<< LinePricing, 800 >>, << LinePricing, 805 >>, << LinePricing, 810 >>,
     << LinePricing, 500 >>, << LinePricing, 300 >>, << LinePricing, 200 >>,
     << FlatPricing, 1000 >>, << FlatPricing, 1009 >>,
     << FlatPricing, 1010 >>, << JumpPricing, 1000 >>,
     << StepPricing(70), 1000 >>, << StepPricing(149), 1000 >>,
     << StepPricing(150), 1000 >>, << StepPricing(151), 1000 >>}

\* `abs(diff) < tolerance`
Converged(diff) == Abs(diff) < TOLERANCE

\* only a negative sigma ends the search
Negative(sigma) == sigma < 0

\* `if sigma <= 0`
NonPositive(sigma) == sigma <= 0

NewtonCall(pricing, target_price, sigma, iterations, result) ==
    [fn |-> "_implied_vol_newton_raphson", pricing |-> pricing,
     target_price |-> target_price, sigma |-> sigma,
     iterations |-> iterations, result |-> result]

\* _implied_vol_newton_raphson is called: `sigma = 0.5`
NewtonBegin ==
    /\ calc = NoCalc
    /\ \E in \in NewtonInputs :
          calc' = NewtonCall(in[1], in[2], INITIAL_SIGMA, 0, "running")
    /\ UNCHANGED << store, call, process, calls, tables >>

\* one round of `for _ in range(max_iterations):`, and the `return None`
\* after the loop when it was the last round
NewtonIterate ==
    /\ calc.fn = "_implied_vol_newton_raphson"
    /\ calc.result = "running"
    /\ LET price == bs_price_scipy(calc.pricing, calc.sigma)
           vega_val == calculate_vega_scipy(calc.pricing, calc.sigma)
           diff == price - calc.target_price
       IN
       IF Converged(diff)
       THEN calc' = [calc EXCEPT !.result = "sigma"]
       ELSE IF vega_val = 0
       THEN calc' = [calc EXCEPT !.result = "none"]
       ELSE LET sigma == calc.sigma - (diff * 100) \div (vega_val * 100) IN
            calc' = [calc EXCEPT
                        !.sigma = sigma,
                        !.iterations = calc.iterations + 1,
                        !.result =
                           IF NonPositive(sigma) THEN "none"
                           ELSE IF calc.iterations + 1 = MAX_ITERATIONS
                                THEN "none"
                                ELSE "running"]
    /\ UNCHANGED << store, call, process, calls, tables >>

NextNewton == NewtonBegin \/ NewtonIterate

\* One call of the Newton-Raphson fallback; the loop runs on.
SpecNewton == Init /\ [][NextNewton]_vars /\ WF_vars(NewtonIterate)

\* The helpers and the detectors called on their own, on quotes drawn from
\* the values above: one call in a behaviour.
NextCalc ==
    \/ LiquidityScore
    \/ IvRank
    \/ IvPercentile
    \/ HistoricalVolatility
    \/ ScanSymbolDetect
    \/ PremiumSelling
    \/ PremiumBuying
    \/ GammaScalping
    \/ Mispricing
    \/ HighDelta

SpecCalc == Init /\ [][NextCalc]_vars

\* ----------------------------------------------------------------- claims
Executing(t) == pc[t] \in {"scan", "save", "commit"}

\* a finished call of scan_all_opportunities(save_to_db=True)
FinishedPersistingScanAll(t) ==
    pc[t] = "done" /\ mode[t] = "universe" /\ save_to_db[t]

CandidateSet(t) == {Candidates(t)[n] : n \in DOMAIN Candidates(t)}

DetectedIds(t) == {Identity(c) : c \in CandidateSet(t)}

\* the symbols whose price the call has fetched
Priced(t) == {s \in SymbolSet : seen[t][s].fetch = "price"}

\* The candidates the market data read by a call holds, stated without the
\* loops: one for every detector body that yields an opportunity whose
\* score, clamped to 100, is at least the minimum, on every quoted contract
\* of every symbol with a price.
ExpectedOf(t, s) ==
    {[contract_id |-> ContractsOf(s)[j],
      opportunity_type |-> seen[t][s].quotes[j][i].type,
      score |-> Min(seen[t][s].quotes[j][i].score, SCORE_CAP)] :
        << j, i >> \in
          {ji \in (DOMAIN seen[t][s].quotes) \X (1..5) :
             /\ seen[t][s].quotes[ji[1]] # NoQuote
             /\ seen[t][s].quotes[ji[1]][ji[2]].k = "opp"
             /\ Min(seen[t][s].quotes[ji[1]][ji[2]].score, SCORE_CAP)
                   >= MIN_SCORE}}

FoundFor(t, s) ==
    {all_opportunities[t][s][n] : n \in DOMAIN all_opportunities[t][s]}

\* C1: persisting is an upsert by identity, whether the stored record is
\* active or not, so the store never holds two records with the same
\* (contract, opportunity type).
C1_OneRecordPerIdentity ==
    \A i, j \in DOMAIN store :
        Identity(store[i]) = Identity(store[j]) => i = j

\* C2: after a persisting full-universe scan without a store error, a
\* record is active exactly if its identity was detected in the pass, and
\* every record from before the scan that was not detected again is still
\* there, inactive.
C2_ActiveIffDetected ==
    \A t \in Threads :
        (FinishedPersistingScanAll(t) /\ ~write_failed[t]) =>
            /\ \A i \in DOMAIN store :
                  store[i].is_active <=> Identity(store[i]) \in DetectedIds(t)
            /\ \A i \in DOMAIN pre_store[t] :
                  Identity(pre_store[t][i]) \notin DetectedIds(t) =>
                      /\ i \in DOMAIN store
                      /\ store[i] = [pre_store[t][i] EXCEPT !.is_active = FALSE]

\* C3: a store write that fails during a persisting scan is reported to the
\* caller: the call does not end like a successful one.
C3_WriteFailureReported ==
    \A t \in Threads :
        (pc[t] = "done" /\ write_failed[t]) => raised[t]

\* C4: a persisting full-universe scan does not commit partially: when its
\* repopulation fails, the store is as it was before the scan.
C4_NoPartialCommit ==
    \A t \in Threads :
        (FinishedPersistingScanAll(t) /\ write_failed[t]) =>
            store = pre_store[t]

\* C5: the callers run the full-universe scan single-flight: no two calls
\* of scan_all_opportunities execute at the same time.
C5_SingleFlight ==
    \A t, u \in Threads :
        (/\ Executing(t) /\ mode[t] = "universe"
         /\ Executing(u) /\ mode[u] = "universe") => t = u

\* C6: once shutdown is signalled during a persisting full-universe scan,
\* the orchestrator stops between symbols: it attempts no further symbol.
C6_StopsBetweenSymbols ==
    [][\A t \in Threads :
          (/\ shutdown_event
           /\ pc[t] = "scan" /\ mode[t] = "universe" /\ save_to_db[t])
          => idx'[t] = idx[t]]_vars

\* what a finished full-universe scan has done with the symbols
C7_SymbolsScanned ==
    \A t \in Threads :
        (pc[t] = "done" /\ mode[t] = "universe") =>
            /\ ~raised[t]
            /\ (save_to_db[t] => deactivated[t] \/ write_failed[t])
            /\ (~save_to_db[t] \/ deactivated[t]) =>
                  \A s \in SymbolSet :
                     /\ seen[t][s].fetch # "unseen"
                     /\ seen[t][s].fetch \in {"norow", "error"} =>
                           all_opportunities[t][s] = << >>
                     /\ seen[t][s].fetch = "price" =>
                           FoundFor(t, s) = ExpectedOf(t, s)

\* the step that ends a persisting full-universe scan whose writes the
\* store took leaves a record for every candidate of the scan
C7_CandidatesPersisted ==
    \A t \in Threads :
        (/\ pc[t] = "commit" /\ pc'[t] = "done" /\ ~write_failed'[t]
         /\ mode[t] = "universe") =>
            \A c \in CandidateSet(t) :
               \E i \in DOMAIN store' :
                  /\ Identity(store'[i]) = Identity(c)
                  /\ store'[i].score = c.score

\* C7: in a full-universe scan a symbol whose price fetch fails or returns
\* nothing contributes no candidates, every symbol of the universe is still
\* scanned, the candidates of the others are persisted (when the store
\* takes the writes), and no exception reaches the caller.
C7_FetchFailureSkipsSymbol ==
    /\ []C7_SymbolsScanned
    /\ [][C7_CandidatesPersisted]_vars

C7_Witness ==
    \E t \in Threads :
        /\ FinishedPersistingScanAll(t) /\ ~write_failed[t]
        /\ seen[t]["A"].fetch = "error"
        /\ seen[t]["B"].fetch = "price"
        /\ all_opportunities[t]["B"] # << >>
        /\ \A c \in CandidateSet(t) : \E i \in DOMAIN store : store[i] = Row(c)

\* C8: a detector that throws on a contract counts as "no opportunity" for
\* that detector and contract only: whatever the other detectors find on
\* that contract, on the other contracts and on the other symbols is still
\* among the candidates.
C8_DetectorExceptionIsolated ==
    \A t \in Threads : \A s \in Priced(t) :
        ExpectedOf(t, s) \subseteq FoundFor(t, s)

C8_Witness ==
    \E t \in Threads :
        /\ pc[t] = "done"
        /\ seen[t]["B"].fetch = "price"
        /\ seen[t]["B"].quotes = << QuoteRaisingSell, QuoteLowSell >>
        /\ Len(all_opportunities[t]["B"]) = 3

\* C9: the call returns the full list of candidates that cleared the
\* minimum whatever the outcome of persistence: every symbol of the call
\* has been scanned and what its data holds is returned, also when a store
\* write (the deactivate-all included) failed.
C9_ReturnsCandidatesRegardless ==
    \A t \in Threads :
        pc[t] = "done" =>
            \A s \in SymbolSet :
                (mode[t] = "universe" \/ symbols[t] = << s >>) =>
                    /\ seen[t][s].fetch # "unseen"
                    /\ seen[t][s].fetch = "price" =>
                          FoundFor(t, s) = ExpectedOf(t, s)

\* C10: every candidate a call holds or returns and every record in the
\* store has a score of at least the minimum (50) and at most 100.
C10_ScoresWithinBounds ==
    /\ \A t \in Threads : \A c \in CandidateSet(t) :
          MIN_SCORE <= c.score /\ c.score <= SCORE_CAP
    /\ \A i \in DOMAIN store :
          MIN_SCORE <= store[i].score /\ store[i].score <= SCORE_CAP

C10_Witness ==
    \E t \in Threads :
        /\ pc[t] = "done"
        /\ seen[t]["A"].quotes = << QuoteLowSell >>
        /\ Len(all_opportunities[t]["A"]) = 2
        /\ \E i \in DOMAIN store : store[i].contract_id = 1

\* the market data a call read for a symbol holds nothing to detect on: no
\* underlying price, no live contract, or no quote for any live contract
YieldsNothing(t, s) ==
    \/ seen[t][s].fetch \in {"norow", "error"}
    \/ /\ seen[t][s].fetch = "price"
       /\ \A j \in DOMAIN seen[t][s].quotes : seen[t][s].quotes[j] = NoQuote

\* C11: scan_symbol on a symbol that yields no candidates (no live
\* contracts, no quotes, or no underlying price) returns the empty list,
\* raises nothing and leaves the store as it was; a persisting full-universe
\* scan over such symbols changes nothing in the store but the activity of
\* the records, all of which it deactivates.
C11_NoCandidatesNoMutation ==
    \A t \in Threads :
        pc[t] = "done" =>
            /\ (mode[t] = "symbol" /\ YieldsNothing(t, symbols[t][1])) =>
                  /\ all_opportunities[t] = NoOpportunities
                  /\ ~raised[t]
                  /\ store = pre_store[t]
            /\ (/\ mode[t] = "universe" /\ save_to_db[t] /\ deactivated[t]
                /\ \A s \in SymbolSet : YieldsNothing(t, s)) =>
                  /\ all_opportunities[t] = NoOpportunities
                  /\ ~raised[t]
                  /\ Len(store) = Len(pre_store[t])
                  /\ \A i \in DOMAIN store :
                        /\ Identity(store[i]) = Identity(pre_store[t][i])
                        /\ store[i].score = pre_store[t][i].score
                        /\ ~store[i].is_active

C11_Witness ==
    \E t \in Threads :
        /\ pc[t] = "done" /\ mode[t] = "universe" /\ save_to_db[t]
        /\ deactivated[t]
        /\ \E i \in DOMAIN pre_store[t] : pre_store[t][i].is_active
        /\ seen[t]["A"] = [fetch |-> "price", quotes |-> << >>]
        /\ seen[t]["B"].fetch = "norow"
        /\ \A i \in DOMAIN store : ~store[i].is_active

\* the symbols that have an active watch entry
Watched ==
    {s \in SymbolSet : /\ symbol_table[s] # "absent"
                       /\ \E n \in DOMAIN user_watchlists[s] :
                             user_watchlists[s][n]}

\* the symbol a contract belongs to
SymbolOf(cid) ==
    CHOOSE s \in SymbolSet :
        \E j \in DOMAIN ContractsOf(s) : ContractsOf(s)[j] = cid

\* a full-universe scan that has read its symbols
ScanningUniverse(t) ==
    /\ pc[t] # "idle" /\ mode[t] = "universe"
    /\ save_to_db[t] => deactivated[t]

C13_AddedSymbolIsWatched ==
    (calc.fn = "add_symbol_to_watchlist" /\ calc.result) =>
        /\ symbol_table[calc.symbol] = "active"
        /\ calc.symbol \in Watched
        /\ \A t \in Threads :
              ScanningUniverse(t) =>
                 \E n \in DOMAIN symbols[t] : symbols[t][n] = calc.symbol

\* the quotes that differ from q in one input of the liquidity score only
LiquidityQuotes ==
    {OptionPrice(ba[1], ba[2], 0, vol, oi, 25, NoGreeks) :
        ba \in BidAsks, vol \in Volumes, oi \in OpenInterests}

SameBut(q, r, field) ==
    \A f \in {"spread_percentage", "volume", "open_interest"} \ {field} :
        q[f] = r[f]

\* C14: liquidity_score is monotone: of two quotes that differ in one input
\* only, the one with the larger volume or the larger open interest never
\* has the lower score, and the one with the larger spread_pct never has
\* the higher score, a spread_pct of 0 (bid equal to ask) included.
C14_LiquidityMonotone ==
    calc.fn = "calculate_liquidity_score" =>
        \A r \in LiquidityQuotes :
            LET q == calc.quote IN
            /\ (SameBut(q, r, "volume") /\ r.volume >= q.volume) =>
                  calculate_liquidity_score(r) >= calc.result
            /\ (SameBut(q, r, "open_interest")
                /\ r.open_interest >= q.open_interest) =>
                  calculate_liquidity_score(r) >= calc.result
            /\ (/\ SameBut(q, r, "spread_percentage")
                /\ q.spread_percentage # Null /\ r.spread_percentage # Null
                /\ r.spread_percentage[1] >= q.spread_percentage[1]) =>
                  calculate_liquidity_score(r) <= calc.result

\* the band of the table a spread falls in
SpreadBand(sp) ==
    IF sp = Null THEN 0
    ELSE IF sp[1] < 500 THEN Pts(40)
    ELSE IF sp[1] < 1000 THEN Pts(30) - (Pts(30) * (sp[1] - 500)) \div 500
    ELSE 0

\* the band of the table a volume or an open interest falls in
StepBand(x, high, mid, low) ==
    IF x >= high THEN Pts(30)
    ELSE IF x >= mid THEN Pts(20)
    ELSE IF x >= low THEN Pts(10)
    ELSE 0

\* C15: for every quote, liquidity_score is the sum of the three tabulated
\* bands and lies in [0, 100]: spread 40 below 5%, a linear taper from 30
\* to 0 from 5% to 10%, 0 from 10% on or when undefined; volume 30/20/10/0
\* at 100/50/10; open interest 30/20/10/0 at 1000/500/100.
C15_LiquidityIsSumOfBands ==
    calc.fn = "calculate_liquidity_score" =>
        /\ calc.result =
              SpreadBand(calc.quote.spread_percentage)
              + StepBand(calc.quote.volume, 100, 50, 10)
              + StepBand(calc.quote.open_interest, 1000, 500, 100)
        /\ 0 <= calc.result /\ calc.result <= Pts(100)

Emits == calc.result.k = "opp"

InBudget(points, budget) == 0 <= points /\ points <= Pts(budget)

\* a score that is the base plus the bonus terms, clamped to 100, and so at
\* least the base and at most 100
ScoreIs(base, bonus) ==
    /\ calc.result.score = Min(Pts(base) + bonus, Pts(100))
    /\ Pts(base) <= calc.result.score
    /\ calc.result.score <= Pts(100)

\* C17: the score a detector emits is at least its base (premium-sell 40,
\* premium-buy 40, gamma-scalp 45, mispricing 50, high-delta 45) and at
\* most 100, and every bonus term added to the base is non-negative and
\* within its point budget, for every input that passes the gates.
C17_ScoreWithinBudget ==
    LET q == calc.quote IN
    /\ (calc.fn = "detect_premium_selling_opportunity" /\ Emits) =>
          /\ InBudget(SellIvRankPoints(calc.recent_iv[1]), 25)
          /\ InBudget(SellThetaPoints(q.theta), 15)
          /\ InBudget(SellVegaPoints(q.vega), 10)
          /\ InBudget(LiquidityBonus(q), 10)
          /\ ScoreIs(40, SellIvRankPoints(calc.recent_iv[1])
                         + SellThetaPoints(q.theta) + SellVegaPoints(q.vega)
                         + LiquidityBonus(q))
    /\ (calc.fn = "detect_premium_buying_opportunity" /\ Emits) =>
          /\ InBudget(BuyIvRankPoints(calc.recent_iv[1]), 25)
          /\ InBudget(BuyVegaPoints(q.vega), 15)
          /\ InBudget(BuyThetaPoints(q.theta), 10)
          /\ InBudget(LiquidityBonus(q), 10)
          /\ ScoreIs(40, BuyIvRankPoints(calc.recent_iv[1])
                         + BuyVegaPoints(q.vega) + BuyThetaPoints(q.theta)
                         + LiquidityBonus(q))
    /\ (calc.fn = "detect_gamma_scalping_opportunity" /\ Emits) =>
          LET m == Moneyness(calc.contract, calc.stock_price) IN
          /\ InBudget(GammaPoints(q.gamma), 20)
          /\ InBudget(MoneynessPoints(m), 15)
          /\ InBudget(RatioPoints(q.gamma, q.theta), 10)
          /\ InBudget(LiquidityBonus(q), 10)
          /\ ScoreIs(45, GammaPoints(q.gamma) + MoneynessPoints(m)
                         + RatioPoints(q.gamma, q.theta) + LiquidityBonus(q))
    /\ (calc.fn = "detect_mispricing_opportunity" /\ Emits) =>
          /\ InBudget(MispricingPoints(MidPrice(q), calc.theoretical_price),
                      30)
          /\ InBudget(MispricingLiquidityPoints(q), 20)
          /\ ScoreIs(50, MispricingPoints(MidPrice(q),
                                          calc.theoretical_price)
                         + MispricingLiquidityPoints(q))
    /\ (calc.fn = "detect_high_delta_opportunity" /\ Emits) =>
          LET itm == ItmPoints(
                        calculate_intrinsic_value(calc.stock_price,
                            calc.contract.strike_price,
                            calc.contract.option_type),
                        MidPrice(q)) IN
          /\ InBudget(DeltaPoints(q.delta), 20)
          /\ InBudget(DeltaThetaPoints(q.delta, q.theta), 15)
          /\ InBudget(LiquidityBonus(q), 10)
          /\ InBudget(itm, 10)
          /\ ScoreIs(45, DeltaPoints(q.delta)
                         + DeltaThetaPoints(q.delta, q.theta)
                         + LiquidityBonus(q) + itm)

\* a premium-sell candidate whose theta bonus is capped and whose score
\* reaches 100
C17_Witness ==
    /\ calc.fn = "detect_premium_selling_opportunity"
    /\ Emits
    /\ calc.quote.theta = 0 - 200
    /\ calc.result.score = Pts(100)

\* a stored Greek of 0 is a Greek the feed did not give
Present(greek) == greek # 0

GreeksDetectors ==
    {"detect_premium_selling_opportunity",
     "detect_premium_buying_opportunity",
     "detect_gamma_scalping_opportunity",
     "detect_high_delta_opportunity"}

\* C19: no Greeks-based detector (premium_sell, premium_buy, gamma_scalp,
\* high_delta) emits a candidate for a quote whose implied volatility is
\* null or <= 0, whatever Greeks the quote carries.
C19_NoGreeksWithoutIV ==
    (calc.fn \in GreeksDetectors /\ calc.quote.implied_volatility <= 0) =>
        ~Emits

\* the trailing period of the history of the call, newest last
C20_Recent ==
    LET h == calc.iv_history
        k == Min(Len(h), calc.period_days) IN
    [i \in 1..k |-> h[Len(h) - k + i]]

\* C20: iv_rank and iv_percentile always return a value in [0, 100] and
\* never raise; with fewer than 10 points in the trailing period both
\* return 50; iv_rank returns 50 when the maximum of the period equals its
\* minimum, 0 when current <= min and 100 when current >= max;
\* iv_percentile returns 100 * (values strictly below current) / (length).
C20_RankAndPercentile ==
    calc.fn \in {"calculate_iv_rank", "calculate_iv_percentile"} =>
        LET r == calc.result
            recent == C20_Recent
            values == {recent[i] : i \in DOMAIN recent} IN
        /\ r[2] > 0 /\ 0 <= r[1] /\ r[1] <= 100 * r[2]
        /\ Len(recent) < 10 => r[1] = 50 * r[2]
        /\ (calc.fn = "calculate_iv_rank" /\ Len(recent) >= 10) =>
              IF \A x, y \in values : x = y
              THEN r[1] = 50 * r[2]
              ELSE calc.current_iv # Null =>
                      /\ (\A x \in values : calc.current_iv[1] <= x) =>
                            r[1] = 0
                      /\ (\A x \in values : calc.current_iv[1] >= x) =>
                            r[1] = 100 * r[2]
        /\ (/\ calc.fn = "calculate_iv_percentile" /\ Len(recent) >= 10
            /\ calc.current_iv # Null) =>
              r[1] * Len(recent) =
                 100 * r[2] * Cardinality({i \in DOMAIN recent :
                                 recent[i] < calc.current_iv[1]})

\* a percentile over the trailing 12 of 15 days, part of them below current
C20_Witness ==
    /\ calc.fn = "calculate_iv_percentile"
    /\ calc.period_days = 12
    /\ Len(calc.iv_history) = 15
    /\ calc.result[2] = 12
    /\ 0 < calc.result[1] /\ calc.result[1] < 1200

\* Two percentages are the same number.
SamePercent(a, b) == a[1] * b[2] = b[1] * a[2]

\* C21: a run of the volatility analysis that finds the same mean implied
\* volatility as the run before it stores a record with the same iv_rank and
\* the same iv_percentile as that run's record.
C21_RescanIdempotent ==
    [][(/\ iv_analysis # << >>
        /\ Len(iv_analysis') = Len(iv_analysis) + 1
        /\ iv_analysis'[Len(iv_analysis')].current_iv =
              iv_analysis[Len(iv_analysis)].current_iv)
       => /\ SamePercent(iv_analysis'[Len(iv_analysis')].iv_rank,
                         iv_analysis[Len(iv_analysis)].iv_rank)
          /\ SamePercent(iv_analysis'[Len(iv_analysis')].iv_percentile,
                         iv_analysis[Len(iv_analysis)].iv_percentile)]_vars

\* C22: historical volatility is the sentinel 0.0 whenever fewer than
\* window_days + 1 samples are supplied, and a volatility is computed only
\* from at least window_days + 1 samples.
C22_SentinelBelowWindow ==
    (/\ calc.fn = "calculate_historical_volatility"
     /\ calc.price_history.series
     /\ Len(calc.price_history.prices) < calc.period_days + 1)
        => calc.result = 0

NewtonCalled == calc.fn = "_implied_vol_newton_raphson"

NewtonPriceOff ==
    Abs(bs_price_scipy(calc.pricing, calc.sigma) - calc.target_price)

\* why a search has no solution, read off where it stands
NoSolution ==
    \/ calc.sigma <= 0
    \/ calc.iterations = 100
    \/ NewtonPriceOff >= 10 /\ calculate_vega_scipy(calc.pricing, calc.sigma) = 0

C23_NewtonResult ==
    NewtonCalled =>
        /\ calc.iterations <= 100
        /\ calc.result = "sigma" => calc.sigma > 0 /\ NewtonPriceOff < 10
        /\ calc.result = "none" => NoSolution
        /\ calc.result = "sigma" => ~NoSolution

C24_OneActivePerIdentity ==
    \A i, j \in DOMAIN store :
        (/\ store[i].is_active /\ store[j].is_active
         /\ Identity(store[i]) = Identity(store[j])) => i = j

\* an identity detected again by a later scan: two records, one active
C24_Witness ==
    \E t \in Threads :
        /\ pc[t] = "done" /\ save_to_db[t] /\ calls = 2
        /\ \E i, j \in DOMAIN store :
              /\ i # j
              /\ Identity(store[i]) = Identity(store[j])
              /\ ~store[i].is_active /\ store[j].is_active
              /\ Identity(store[j]) \in DetectedIds(t)

PassTypes(cid) ==
    {calc.result[n].opportunity_type :
        n \in {m \in DOMAIN calc.result : calc.result[m].contract_id = cid}}

PassContracts == {calc.result[n].contract_id : n \in DOMAIN calc.result}

\* C25: the candidates of one pass over a symbol, all made with the same
\* volatility record, never hold a premium_sell and a premium_buy, never an
\* overpriced and an underpriced candidate of the same contract, and never
\* two candidates with the same (contract, opportunity type).
C25_NoContradictoryCandidates ==
    calc.fn = "scan_symbol_opportunities" =>
        /\ ~ \E c, e \in PassContracts :
                /\ "premium_sell" \in PassTypes(c)
                /\ "premium_buy" \in PassTypes(e)
        /\ \A c \in PassContracts :
              ~ {"overpriced", "underpriced"} \subseteq PassTypes(c)
        /\ \A m, n \in DOMAIN calc.result :
              Identity(calc.result[m]) = Identity(calc.result[n]) => m = n

\* a pass that finds premium_buy on both contracts, one of them overpriced
\* and the other underpriced
C25_Witness ==
    /\ calc.fn = "scan_symbol_opportunities"
    /\ \E c, e \in PassContracts :
          /\ c # e
          /\ {"premium_buy", "overpriced"} \subseteq PassTypes(c)
          /\ {"premium_buy", "underpriced"} \subseteq PassTypes(e)

\* Monday to Friday, 09:30:00 to 16:00:00
MarketOpen(now) ==
    /\ now.weekday \in 0..4
    /\ 9 * 3600 + 30 * 60 <= now.time
    /\ now.time <= 16 * 3600

\* C26: quick_update updates and scans only when the US/Eastern time is
\* Monday to Friday between 09:30 and 16:00 inclusive; called at any other
\* time it returns without updating, scanning or changing the store.
C26_QuickUpdateOnlyInMarketHours ==
    [][(pc["worker"] = "idle" /\ calc'.fn = "quick_update") =>
          IF MarketOpen(calc'.now)
          THEN /\ calc'.updated
               /\ mode'["worker"] = "universe" /\ save_to_db'["worker"]
               /\ pc'["worker"] # "idle"
          ELSE /\ ~calc'.updated
               /\ UNCHANGED << store, call, process, calls, tables >>]_vars

\* the firing at 16:00:00 on a Friday has begun its scan
C26_Witness ==
    /\ calc.fn = "quick_update"
    /\ calc.now = [weekday |-> 4, time |-> 16 * 3600]
    /\ pc["worker"] = "scan"

SchedulerState == << is_running, scheduler_running, jobs >>

RunningIffStarted ==
    /\ is_running <=> scheduler_running
    /\ calc.fn = "get_status" =>
          /\ calc.jobs # {} => calc.is_running
          /\ calc.is_running => calc.jobs = JobIds

\* a call of start() or stop() records whether the scheduler was running
RecordsRunning ==
    (calc' # calc /\ calc'.fn \in {"start", "stop"}) =>
        calc'.was_running = is_running

StartWhileRunningIsNoOp ==
    (calc'.fn = "start" /\ calc'.was_running) =>
        (UNCHANGED SchedulerState /\ calc'.registered = {})

StopWhileStoppedIsNoOp ==
    (calc'.fn = "stop" /\ ~calc'.was_running) => UNCHANGED SchedulerState

\* C27: over any sequence of start() and stop(), is_running is true
\* exactly while the underlying scheduler is started and not shut down;
\* start() while running and stop() while not running register nothing
\* and leave the underlying scheduler alone; get_status lists jobs only
\* while running.
C27_SchedulerLifecycle ==
    /\ []RunningIffStarted
    /\ [][/\ RecordsRunning
           /\ StartWhileRunningIsNoOp
           /\ StopWhileStoppedIsNoOp]_vars

\* start() was called on a running scheduler
C27_Witness ==
    /\ calc.fn = "start" /\ calc.was_running
    /\ is_running /\ scheduler_running /\ jobs = JobIds

\* C28: once the tables are verified, main() of the worker constructs and
\* starts the scheduler and stays alive until the shutdown event is set;
\* it ends only after the event, by way of scheduler.stop().
C28_WorkerStaysAliveUntilShutdown ==
    main_pc \in {"crashed", "exited"} => shutdown_event

MigrationRan == calc'.fn = "migrate_existing_symbols_to_watchlist"

\* C29: after a successful run of the migration every active symbol has a
\* watchlist entry and the entries of a symbol that had one, active or
\* not, are as they were; a run that follows a successful run creates
\* nothing; a run that fails keeps nothing.
C29_MigrationIdempotent ==
    [][MigrationRan =>
          /\ calc'.result =>
                \A s \in SymbolSet :
                   /\ symbol_table'[s] = "active" =>
                         user_watchlists'[s] # << >>
                   /\ user_watchlists[s] # << >> =>
                         user_watchlists'[s] = user_watchlists[s]
          /\ (calc.fn = "migrate_existing_symbols_to_watchlist"
                 /\ calc.result) => UNCHANGED user_watchlists
          /\ ~calc'.result => UNCHANGED user_watchlists]_vars

\* a run that created an entry for one symbol and left the inactive entry
\* of the other alone
C29_Witness ==
    /\ calc.fn = "migrate_existing_symbols_to_watchlist"
    /\ calc.result /\ calc.created = 1
    /\ \E s, u \in SymbolSet :
          /\ symbol_table[s] = "active" /\ user_watchlists[s] = << TRUE >>
          /\ symbol_table[u] = "active" /\ user_watchlists[u] = << FALSE >>

\* a finished call of scan_symbol_opportunities(symbol, save_to_db=True)
FinishedPersistingScanSymbol(t) ==
    pc[t] = "done" /\ mode[t] = "symbol" /\ save_to_db[t]

\* C30: a persisting scan of one symbol inserts or updates only records of
\* identities it detected; no other record is deactivated or changed, so a
\* record of the symbol that is not detected any more stays active.
C30_ScanSymbolTouchesOnlyDetected ==
    \A t \in Threads :
        FinishedPersistingScanSymbol(t) =>
            /\ Len(store) >= Len(pre_store[t])
            /\ \A i \in DOMAIN pre_store[t] :
                  /\ store[i].is_active = pre_store[t][i].is_active
                  /\ Identity(store[i]) = Identity(pre_store[t][i])
                  /\ Identity(pre_store[t][i]) \notin DetectedIds(t) =>
                        store[i] = pre_store[t][i]
            /\ \A i \in DOMAIN store :
                  i > Len(pre_store[t]) =>
                      Identity(store[i]) \in DetectedIds(t)

\* a scan of a symbol that inserted a record while an active record of the
\* same symbol, not detected this time, stayed active
C30_Witness ==
    \E t \in Threads :
        /\ FinishedPersistingScanSymbol(t)
        /\ Len(store) > Len(pre_store[t])
        /\ \E i \in DOMAIN pre_store[t] :
              /\ SymbolOf(pre_store[t][i].contract_id) = symbols[t][1]
              /\ Identity(pre_store[t][i]) \notin DetectedIds(t)
              /\ pre_store[t][i].is_active /\ store[i].is_active

====
